---- MODULE Spec2Model ----
(***************************************************************************)
(* A model of enaml/core/expression_engine.py: the ExpressionEngine, its   *)
(* two sortedmap fields, the per-name lists of write handlers, and the     *)
(* call stack of read/write dispatches in progress.                        *)
(*                                                                         *)
(* Python objects are modelled by reference: an engine holds the identity  *)
(* of its two sortedmaps, a write map holds the identity of a list, and a  *)
(* running `for handler in <list>` holds the identity of the list it       *)
(* iterates.  Handlers are opaque callables: a read handler returns a     *)
(* value or raises; a write handler returns or raises, and while it runs   *)
(* it may call back into any engine, copy one, or change registrations.    *)
(***************************************************************************)
EXTENDS Integers, Sequences, FiniteSets, TLC

\* ---- bounds ----
\* engines that exist at once
MaxEngines == 3
\* calls in progress at once (a write handler may call back into an engine)
MaxDepth == 2
\* registration changes in one run; no chain grows longer than this
MaxRegs == 2
\* engines that exist at once in the runs that also dispatch
MaxCallEngines == MaxEngines - 1

\* ---- universes of opaque values ----
NameOrder == <<"a", "b">>
Names == {NameOrder[i] : i \in 1..Len(NameOrder)}
Owners == {"o1", "o2"}
Changes == {"c1", "c2"}
\* the (owner, change) pairs that write is called with
WriteArgs == {<<"o1", "c1">>, <<"o2", "c2">>}
ReadHandlers == {"r1", "r2"}
WriteHandlers == {"w1", "w2"}
Values == {"v1", "v2"}
Errors == {"x1", "x2"}
None == "none"
KeyError == "KeyError"

MapIds == 1..MaxEngines
ListIds == 1..(MaxEngines * Cardinality(Names) + MaxDepth)

VARIABLES engines, rmaps, wmaps, lists, stack, ret, parent, nregs

vars == <<engines, rmaps, wmaps, lists, stack, ret, parent, nregs>>

\* ---- helpers ----
Min(S) == CHOOSE x \in S : \A y \in S : x <= y

Top == stack[Len(stack)]

Pop(s) == SubSeq(s, 1, Len(s) - 1)

SetTop(s, f) == [s EXCEPT ![Len(s)] = f]

Inv(h, o, n, c) == <<h, o, n, c>>

NoFrame ==
    [kind |-> None, engine |-> 0, owner |-> None, name |-> None,
     change |-> None, list |-> 0, idx |-> 0, pc |-> None, handler |-> None,
     bound0 |-> None, chain0 |-> <<>>, chain1 |-> <<>>, invoked |-> <<>>,
     hval |-> None]

NoRet ==
    [outcome |-> None, val |-> None, new |-> 0, depth |-> 0, frame |-> NoFrame]

\* The caller of an engine method, and of a registration, is the owner's
\* machinery (no call in progress) or a write handler that is running.
CanAct ==
    IF stack = <<>> THEN TRUE ELSE Top.kind = "write" /\ Top.pc = "handler"

CanCall == CanAct /\ Len(stack) < MaxDepth

Live == 1..Len(engines)

\* ---- heap ----
\* Lists that neither a write map nor a running loop refers to are reclaimed.
Collect(ls, wm, stk) ==
    LET used == {wm[m][n] : m \in MapIds, n \in Names}
                \cup {stk[k].list : k \in 1..Len(stk)}
    IN [i \in ListIds |-> IF i \in used THEN ls[i] ELSE <<>>]

FreshList(ls) == Min({i \in ListIds : ls[i] = <<>>})

FreshReadMap == Min(MapIds \ {engines[e].read_handlers : e \in Live})

FreshWriteMap == Min(MapIds \ {engines[e].write_handlers : e \in Live})

\* ---- lookups ----
\* a lookup that falls back to a default handler
ReadLookupDefault(e, n) ==
    IF rmaps[engines[e].read_handlers][n] = None THEN "r1"
    ELSE rmaps[engines[e].read_handlers][n]

\* self.read_handlers[name]
ReadLookup(e, n) == rmaps[engines[e].read_handlers][n]

\* self.write_handlers[name]
WriteLookup(e, n) == wmaps[engines[e].write_handlers][n]

\* ---- observable registrations of an engine ----
ReadView(e) == rmaps[engines[e].read_handlers]

WriteView(e) ==
    [n \in Names |->
        IF wmaps[engines[e].write_handlers][n] = 0 THEN <<>>
        ELSE <<lists[wmaps[engines[e].write_handlers][n]]>>]

View(e) == <<ReadView(e), WriteView(e)>>

Init ==
    /\ engines = <<[read_handlers |-> 1, write_handlers |-> 1]>>
    /\ rmaps = [m \in MapIds |-> [n \in Names |-> None]]
    /\ wmaps = [m \in MapIds |-> [n \in Names |-> 0]]
    /\ lists = [i \in ListIds |-> <<>>]
    /\ stack = <<>>
    /\ ret = NoRet
    /\ parent = <<0>>
    /\ nregs = 0

\* ---- registration (the binding compiler's side of the engine) ----
set_read_handler(e, n, h) ==
    /\ nregs < MaxRegs
    /\ nregs' = nregs + 1
    /\ CanAct
    /\ e \in Live
    /\ rmaps[engines[e].read_handlers][n] # h
    /\ rmaps' = [rmaps EXCEPT ![engines[e].read_handlers][n] = h]
    /\ ret' = NoRet
    /\ UNCHANGED <<engines, wmaps, lists, stack, parent>>

remove_read_handler(e, n) ==
    /\ nregs < MaxRegs
    /\ nregs' = nregs + 1
    /\ CanAct
    /\ e \in Live
    /\ rmaps[engines[e].read_handlers][n] # None
    /\ rmaps' = [rmaps EXCEPT ![engines[e].read_handlers][n] = None]
    /\ ret' = NoRet
    /\ UNCHANGED <<engines, wmaps, lists, stack, parent>>

add_write_handler(e, n, h) ==
    /\ nregs < MaxRegs
    /\ nregs' = nregs + 1
    /\ CanAct
    /\ e \in Live
    /\ LET m == engines[e].write_handlers
           ref == wmaps[m][n]
       IN IF ref = 0
          THEN LET new == FreshList(lists)
               IN /\ lists' = [lists EXCEPT ![new] = <<h>>]
                  /\ wmaps' = [wmaps EXCEPT ![m][n] = new]
          ELSE /\ lists' = [lists EXCEPT ![ref] = Append(@, h)]
               /\ UNCHANGED wmaps
    /\ ret' = NoRet
    /\ UNCHANGED <<engines, rmaps, stack, parent>>

remove_write_handlers(e, n) ==
    /\ nregs < MaxRegs
    /\ nregs' = nregs + 1
    /\ CanAct
    /\ e \in Live
    /\ wmaps[engines[e].write_handlers][n] # 0
    /\ wmaps' = [wmaps EXCEPT ![engines[e].write_handlers][n] = 0]
    /\ lists' = Collect(lists, wmaps', stack)
    /\ ret' = NoRet
    /\ UNCHANGED <<engines, rmaps, stack, parent>>

\* ---- ExpressionEngine.read ----
\* a read that drops the handler's result
ReadResultDropped(v) == None

\* return self.read_handlers[name](owner, name)
ReadResult(v) == v

read(e, o, n) ==
    /\ UNCHANGED nregs
    /\ CanCall
    /\ e \in Live
    /\ LET h == ReadLookup(e, n)
           f == [NoFrame EXCEPT !.kind = "read", !.engine = e, !.owner = o,
                                !.name = n,
                                !.bound0 = rmaps[engines[e].read_handlers][n]]
       IN IF h = None
          THEN /\ ret' = [outcome |-> "raise", val |-> KeyError, new |-> 0,
                          depth |-> Len(stack), frame |-> f]
               /\ UNCHANGED stack
          ELSE /\ stack' = Append(stack,
                     [f EXCEPT !.pc = "handler", !.handler = h,
                               !.invoked = <<Inv(h, o, n, None)>>])
               /\ ret' = NoRet
    /\ UNCHANGED <<engines, rmaps, wmaps, lists, parent>>

\* the read handler returns v, and read returns
ReadHandlerReturn(v) ==
    /\ UNCHANGED nregs
    /\ stack # <<>>
    /\ Top.kind = "read"
    /\ Top.pc = "handler"
    /\ stack' = Pop(stack)
    /\ ret' = [outcome |-> "return", val |-> ReadResult(v), new |-> 0,
               depth |-> Len(stack) - 1, frame |-> [Top EXCEPT !.hval = v]]
    /\ lists' = Collect(lists, wmaps, stack')
    /\ UNCHANGED <<engines, rmaps, wmaps, parent>>

\* ---- ExpressionEngine.write ----
\* a loop over a snapshot of the list, taken when write was called
ChainSnapshot(f) == f.chain0

\* the list object the for statement iterates
ChainOf(f) == lists[f.list]

\* an iterator that yields the newest handler first
HandlerAtReversed(chain, i) == chain[Len(chain) + 1 - i]

\* the i-th element the iterator yields
HandlerAt(chain, i) == chain[i]

write(e, o, n, c) ==
    /\ UNCHANGED nregs
    /\ CanCall
    /\ e \in Live
    /\ LET ref == WriteLookup(e, n)
           key == wmaps[engines[e].write_handlers][n]
           f == [NoFrame EXCEPT !.kind = "write", !.engine = e, !.owner = o,
                                !.name = n, !.change = c,
                                !.bound0 = IF key = 0 THEN None ELSE "chain",
                                !.chain0 = IF key = 0 THEN <<>> ELSE lists[key]]
       IN IF ref = 0
          THEN /\ ret' = [outcome |-> "raise", val |-> KeyError, new |-> 0,
                          depth |-> Len(stack), frame |-> f]
               /\ UNCHANGED stack
          ELSE /\ stack' = Append(stack,
                     [f EXCEPT !.pc = "loop", !.list = ref])
               /\ ret' = NoRet
    /\ UNCHANGED <<engines, rmaps, wmaps, lists, parent>>

\* one turn of `for handler in ...: handler(owner, name, change)`, or the
\* end of the loop and the return of write
write_loop ==
    /\ UNCHANGED nregs
    /\ stack # <<>>
    /\ Top.kind = "write"
    /\ Top.pc = "loop"
    /\ IF Top.idx < Len(ChainOf(Top))
       THEN LET h == HandlerAt(ChainOf(Top), Top.idx + 1)
            IN /\ stack' = SetTop(stack,
                     [Top EXCEPT !.idx = @ + 1, !.pc = "handler",
                                 !.handler = h,
                                 !.invoked = Append(@,
                                     Inv(h, Top.owner, Top.name, Top.change))])
               /\ ret' = NoRet
               /\ UNCHANGED lists
       ELSE /\ stack' = Pop(stack)
            /\ ret' = [outcome |-> "return", val |-> None, new |-> 0,
                       depth |-> Len(stack) - 1,
                       frame |-> [Top EXCEPT !.chain1 = lists[Top.list]]]
            /\ lists' = Collect(lists, wmaps, stack')
    /\ UNCHANGED <<engines, rmaps, wmaps, parent>>

WriteHandlerReturn ==
    /\ UNCHANGED nregs
    /\ stack # <<>>
    /\ Top.kind = "write"
    /\ Top.pc = "handler"
    /\ stack' = SetTop(stack, [Top EXCEPT !.pc = "loop"])
    /\ ret' = NoRet
    /\ UNCHANGED <<engines, rmaps, wmaps, lists, parent>>

\* a dispatch that catches the exception and goes on
OnHandlerFailureSwallowed(x) == [propagate |-> FALSE, val |-> x]

\* what read and write do with an exception x that a handler raises: there
\* is no try statement, so the call ends and x reaches the caller
OnHandlerFailure(x) == [propagate |-> TRUE, val |-> x]

HandlerRaise(x) ==
    /\ UNCHANGED nregs
    /\ stack # <<>>
    /\ Top.pc = "handler"
    /\ LET r == OnHandlerFailure(x)
       IN IF r.propagate
          THEN /\ stack' = Pop(stack)
               /\ ret' = [outcome |-> "raise", val |-> r.val, new |-> 0,
                          depth |-> Len(stack) - 1,
                          frame |-> [Top EXCEPT !.hval = x,
                              !.chain1 = IF Top.list = 0 THEN <<>>
                                         ELSE lists[Top.list]]]
               /\ lists' = Collect(lists, wmaps, stack')
          ELSE /\ stack' = SetTop(stack, [Top EXCEPT !.pc = "loop"])
               /\ ret' = NoRet
               /\ UNCHANGED lists
    /\ UNCHANGED <<engines, rmaps, wmaps, parent>>

\* ---- ExpressionEngine.copy ----
\* a copy that hands the same sortedmap object to the new engine
SortedmapCopyAliased(src, rm) == [ref |-> src, maps |-> rm]

\* a copy that starts from an empty sortedmap
SortedmapCopyEmpty(src, rm) ==
    [ref |-> FreshReadMap,
     maps |-> [rm EXCEPT ![FreshReadMap] = [n \in Names |-> None]]]

\* self.read_handlers.copy(): a new sortedmap with the same items
SortedmapCopy(src, rm) ==
    [ref |-> FreshReadMap, maps |-> [rm EXCEPT ![FreshReadMap] = rm[src]]]

\* a copy that hands the same list object to the new engine
ListSliceAliased(value, ls) == [ref |-> value, lists |-> ls]

\* a copy that moves the items out of the original list
ListSliceMoved(value, ls) ==
    [ref |-> FreshList(ls),
     lists |-> [ls EXCEPT ![FreshList(ls)] = ls[value], ![value] = <<>>]]

\* value[:]: a new list with the same items
ListSlice(value, ls) ==
    [ref |-> FreshList(ls), lists |-> [ls EXCEPT ![FreshList(ls)] = ls[value]]]

\* for key, value in self.write_handlers.items(): w[key] = value[:]
RECURSIVE CopyItems(_, _, _, _)
CopyItems(i, items, w, ls) ==
    IF i > Len(NameOrder) THEN [w |-> w, lists |-> ls]
    ELSE LET key == NameOrder[i]
             value == items[key]
         IN IF value = 0 THEN CopyItems(i + 1, items, w, ls)
            ELSE LET c == ListSlice(value, ls)
                 IN CopyItems(i + 1, items, [w EXCEPT ![key] = c.ref], c.lists)

copy(e) ==
    /\ UNCHANGED nregs
    /\ CanAct
    /\ e \in Live
    /\ Len(engines) < MaxEngines
    /\ LET r == SortedmapCopy(engines[e].read_handlers, rmaps)
           wid == FreshWriteMap
           c == CopyItems(1, wmaps[engines[e].write_handlers],
                          [n \in Names |-> 0], lists)
       IN /\ engines' = Append(engines,
                [read_handlers |-> r.ref, write_handlers |-> wid])
          /\ rmaps' = r.maps
          /\ wmaps' = [wmaps EXCEPT ![wid] = c.w]
          /\ lists' = c.lists
    /\ parent' = Append(parent, e)
    /\ ret' = [outcome |-> "return", val |-> None, new |-> Len(engines) + 1,
               depth |-> Len(stack),
               frame |-> [NoFrame EXCEPT !.kind = "copy", !.engine = e]]
    /\ UNCHANGED stack

Register ==
    \/ \E e \in 1..MaxEngines, n \in Names, h \in ReadHandlers :
           set_read_handler(e, n, h)
    \/ \E e \in 1..MaxEngines, n \in Names : remove_read_handler(e, n)
    \/ \E e \in 1..MaxEngines, n \in Names, h \in WriteHandlers :
           add_write_handler(e, n, h)
    \/ \E e \in 1..MaxEngines, n \in Names : remove_write_handlers(e, n)

\* registrations, reads, writes and copies, on at most MaxCallEngines engines
Next ==
    \/ Register
    \/ \E e \in 1..MaxEngines, o \in Owners, n \in Names : read(e, o, n)
    \/ \E v \in Values : ReadHandlerReturn(v)
    \/ \E e \in 1..MaxEngines, n \in Names, a \in WriteArgs :
           write(e, a[1], n, a[2])
    \/ write_loop
    \/ WriteHandlerReturn
    \/ \E x \in Errors : HandlerRaise(x)
    \/ \E e \in 1..MaxEngines : Len(engines) < MaxCallEngines /\ copy(e)

Spec == Init /\ [][Next]_vars

\* registrations, reads and writes on the one engine that Init constructs
NextOne ==
    \/ Register
    \/ \E o \in Owners, n \in Names : read(1, o, n)
    \/ \E v \in Values : ReadHandlerReturn(v)
    \/ \E n \in Names, a \in WriteArgs : write(1, a[1], n, a[2])
    \/ write_loop
    \/ WriteHandlerReturn
    \/ \E x \in Errors : HandlerRaise(x)

SpecOne == Init /\ [][NextOne]_vars

\* registrations and copies alone, on up to MaxEngines engines
NextCopy ==
    \/ Register
    \/ \E e \in 1..MaxEngines : copy(e)

SpecCopy == Init /\ [][NextCopy]_vars

\* ---- what a call invokes, computed in one step ----
InvocationsOf(chain, o, n, c) == [i \in 1..Len(chain) |-> Inv(chain[i], o, n, c)]

\* write(owner, name, change) when every handler returns and none re-registers
WriteInvocations(e, o, n, c) ==
    LET ref == WriteLookup(e, n)
    IN IF ref = 0 THEN [raises |-> TRUE, calls |-> <<>>]
       ELSE [raises |-> FALSE,
             calls |-> [i \in 1..Len(lists[ref]) |->
                           Inv(HandlerAt(lists[ref], i), o, n, c)]]

\* read(owner, name)
ReadInvocations(e, o, n) ==
    LET h == ReadLookup(e, n)
    IN IF h = None THEN [raises |-> TRUE, calls |-> <<>>]
       ELSE [raises |-> FALSE, calls |-> <<Inv(h, o, n, None)>>]

SameRegistrations == rmaps' = rmaps /\ wmaps' = wmaps /\ lists' = lists

\* ---- claims ----

\* C1: a read of a name that has a read handler bound invokes exactly that
\* handler, once, with (owner, name), and returns the handler's result
\* unchanged; no other handler is invoked by the read.
C1_ReadInvokesBoundHandler ==
    /\ \A k \in 1..Len(stack) :
          (stack[k].kind = "read" /\ stack[k].bound0 # None) =>
              stack[k].invoked =
                  <<Inv(stack[k].bound0, stack[k].owner, stack[k].name, None)>>
    /\ (ret.frame.kind = "read" /\ ret.frame.bound0 # None) =>
          /\ ret.frame.invoked =
                 <<Inv(ret.frame.bound0, ret.frame.owner, ret.frame.name, None)>>
          /\ ret.val = ret.frame.hval
          /\ ret.outcome = "return" => ret.val \in Values

C1_Witness ==
    /\ ret.outcome = "return"
    /\ ret.frame.kind = "read"
    /\ ret.val \in Values
    /\ \E n \in Names :
          /\ n # ret.frame.name
          /\ ReadView(ret.frame.engine)[n] \notin {None, ret.frame.bound0}

\* C2: a read of a name that has no read handler bound ends in a KeyError
\* that reaches the caller: no handler is invoked, no call is left in
\* progress and no registration changes, whether or not the name has write
\* handlers.
C2_ReadUnboundRaises ==
    [][\A e \in Live, o \in Owners, n \in Names :
          (read(e, o, n) /\ rmaps[engines[e].read_handlers][n] = None) =>
              /\ ret'.outcome = "raise"
              /\ ret'.val = KeyError
              /\ ret'.frame.invoked = <<>>
              /\ stack' = stack
              /\ SameRegistrations]_vars

C2_Witness ==
    /\ ret.outcome = "raise"
    /\ ret.val = KeyError
    /\ ret.frame.kind = "read"
    /\ ret.frame.invoked = <<>>
    /\ wmaps[engines[ret.frame.engine].write_handlers][ret.frame.name] # 0

\* C3: a write that returns, on a chain [h1, ..., hk] that nothing changed
\* during the call, has invoked h1, ..., hk once each, in registration order,
\* one after the other, each with the call's own (owner, name, change), and
\* nothing else; while it runs it has invoked a prefix of the chain.
C3_WriteInvokesChainInOrder ==
    /\ \A k \in 1..Len(stack) :
          stack[k].kind = "write" =>
              /\ stack[k].idx <= Len(lists[stack[k].list])
              /\ stack[k].invoked =
                     InvocationsOf(SubSeq(lists[stack[k].list], 1, stack[k].idx),
                                   stack[k].owner, stack[k].name,
                                   stack[k].change)
    /\ (/\ ret.outcome = "return"
        /\ ret.frame.kind = "write"
        /\ ret.frame.chain1 = ret.frame.chain0) =>
          ret.frame.invoked =
              InvocationsOf(ret.frame.chain0, ret.frame.owner, ret.frame.name,
                            ret.frame.change)

C3_Witness ==
    /\ ret.outcome = "return"
    /\ ret.frame.kind = "write"
    /\ ret.frame.chain1 = ret.frame.chain0
    /\ Len(ret.frame.invoked) = 2
    /\ ret.frame.invoked[1][1] # ret.frame.invoked[2][1]

\* C4: a write of a name that is not a key of write_handlers is a no-op: it
\* raises nothing, invokes no handler and changes no state.
C4_WriteUnboundIsNoOp ==
    [][\A e \in Live, n \in Names, a \in WriteArgs :
          (/\ write(e, a[1], n, a[2])
           /\ wmaps[engines[e].write_handlers][n] = 0) =>
              /\ ret'.outcome # "raise"
              /\ ret'.frame.invoked = <<>>
              /\ stack' = stack
              /\ SameRegistrations]_vars

\* C7: when a handler raises x, the call that invoked it ends at once and x
\* reaches its caller as it is; a write has then invoked the chain up to
\* and including the failing handler, in order, and never invokes the rest.
C7_FailureAbortsAndPropagates ==
    [][\A x \in Errors :
          HandlerRaise(x) =>
              /\ stack' = Pop(stack)
              /\ ret'.outcome = "raise"
              /\ ret'.val = x
              /\ ret'.frame.kind = Top.kind
              /\ Top.kind = "write" =>
                    ret'.frame.invoked =
                        InvocationsOf(SubSeq(lists[Top.list], 1, Top.idx),
                                      Top.owner, Top.name, Top.change)
              /\ Top.kind = "read" =>
                    ret'.frame.invoked =
                        <<Inv(Top.handler, Top.owner, Top.name, None)>>]_vars

C7_Witness ==
    /\ ret.outcome = "raise"
    /\ ret.val \in Errors
    /\ ret.frame.kind = "write"
    /\ Len(ret.frame.invoked) = 1
    /\ Len(ret.frame.chain1) = 2

\* C9: a step of read, write or copy (any step that is not a registration)
\* leaves the registrations of every existing engine as they were: the same
\* read handler per name, the same write chains in the same order.
C9_EngineCodeKeepsRegistrations ==
    [][~Register =>
          /\ \A e \in Live : engines'[e] = engines[e] /\ View(e)' = View(e)]_vars

C9_Witness ==
    /\ ret.frame.kind = "copy"
    /\ ret.depth = 1
    /\ ReadView(ret.frame.engine) # [n \in Names |-> None]
    /\ WriteView(ret.frame.engine) # [n \in Names |-> <<>>]

\* C10: calls nest: while a call made by a running handler is in progress,
\* every call below it stays suspended inside its handler, untouched, and
\* resumes with its own (owner, name, change); and a write that returns has
\* invoked every handler of its list as the list is by then, the handlers
\* appended during the dispatch included.
C10_NestedWritesRunToCompletion ==
    [][/\ \A k \in 1..(Len(stack) - 1) :
             /\ stack[k].pc = "handler"
             /\ Len(stack') >= k
             /\ stack'[k] = stack[k]
       /\ (stack # <<>> /\ Len(stack') = Len(stack)) =>
             /\ stack'[Len(stack)].owner = Top.owner
             /\ stack'[Len(stack)].name = Top.name
             /\ stack'[Len(stack)].change = Top.change
             /\ stack'[Len(stack)].list = Top.list
       /\ (ret'.outcome = "return" /\ ret'.frame.kind = "write") =>
             ret'.frame.invoked =
                 InvocationsOf(ret'.frame.chain1, ret'.frame.owner,
                               ret'.frame.name, ret'.frame.change)]_vars

C10_Witness ==
    /\ ret.outcome = "return"
    /\ ret.frame.kind = "write"
    /\ ret.depth = 1
    /\ ret.frame.invoked # <<>>
    /\ Len(stack) = 1
    /\ stack[1].kind = "write"
    /\ ret.frame.engine # stack[1].engine
    /\ stack[1].pc = "handler"
    /\ Len(lists[stack[1].list]) > Len(stack[1].chain0)
    /\ stack[1].idx < Len(lists[stack[1].list])

\* no list object is the chain of two engines
NoSharedLists ==
    \A e1 \in Live, e2 \in Live, n \in Names, m \in Names :
       (e1 # e2 /\ wmaps[engines[e1].write_handlers][n] # 0) =>
           wmaps[engines[e1].write_handlers][n]
               # wmaps[engines[e2].write_handlers][m]

\* no sortedmap object is the map of two engines
NoSharedMaps ==
    \A e1 \in Live, e2 \in Live :
       e1 # e2 =>
           /\ engines[e1].read_handlers # engines[e2].read_handlers
           /\ engines[e1].write_handlers # engines[e2].write_handlers

\* C5: appending a write handler to one engine, at a name it already has or
\* at a new one, leaves what write invokes on every other engine as it was,
\* for every name; and no two engines ever hold the same list object.
C5_AppendsStayInOneEngine ==
    [][/\ NoSharedLists'
       /\ \A e \in Live, n \in Names, h \in WriteHandlers :
             add_write_handler(e, n, h) =>
                 \A e2 \in Live \ {e}, m \in Names, a \in WriteArgs :
                     WriteInvocations(e2, a[1], m, a[2])'
                         = WriteInvocations(e2, a[1], m, a[2])]_vars

C5_Witness ==
    \E e \in Live, n \in Names :
       /\ parent[e] # 0
       /\ WriteView(parent[e])[n] # <<>>
       /\ WriteView(e)[n] # <<>>
       /\ Len(WriteView(e)[n][1]) # Len(WriteView(parent[e])[n][1])

\* C6: when copy returns, the new engine has the read keys and the write
\* keys of the original, every read invokes the same handler on both (or
\* fails on both), and every write invokes the same handlers in the same
\* order on both.
C6_CopyIsEquivalent ==
    ret.frame.kind = "copy" =>
        /\ ret.new \in Live
        /\ {n \in Names : ReadView(ret.new)[n] # None}
               = {n \in Names : ReadView(ret.frame.engine)[n] # None}
        /\ {n \in Names : WriteView(ret.new)[n] # <<>>}
               = {n \in Names : WriteView(ret.frame.engine)[n] # <<>>}
        /\ \A n \in Names, o \in Owners :
              ReadInvocations(ret.new, o, n)
                  = ReadInvocations(ret.frame.engine, o, n)
        /\ \A n \in Names, a \in WriteArgs :
              WriteInvocations(ret.new, a[1], n, a[2])
                  = WriteInvocations(ret.frame.engine, a[1], n, a[2])

C6_Witness ==
    /\ ret.frame.kind = "copy"
    /\ \E n \in Names : ReadView(ret.frame.engine)[n] # None
    /\ \E n \in Names : WriteView(ret.frame.engine)[n] # <<>>

\* C8: setting, overwriting or removing a read handler, or removing a write
\* chain, on one engine leaves the registrations of every other engine as
\* they were; no two engines, a copy of a copy included, ever hold the same
\* sortedmap or the same list.
C8_RegistrationsStayInOneEngine ==
    [][/\ NoSharedMaps'
       /\ NoSharedLists'
       /\ \A e \in Live, n \in Names :
             (\/ \E h \in ReadHandlers : set_read_handler(e, n, h)
              \/ remove_read_handler(e, n)
              \/ remove_write_handlers(e, n)) =>
                 \A e2 \in Live \ {e} : View(e2)' = View(e2)]_vars

C8_Witness ==
    \E e \in Live :
       /\ parent[e] # 0
       /\ parent[parent[e]] # 0
       /\ ReadView(parent[e]) # [n \in Names |-> None]
       /\ ReadView(parent[e]) = ReadView(parent[parent[e]])
       /\ ReadView(e) # ReadView(parent[e])

====
